---- MODULE Spec2Model ----
(***************************************************************************)
(* A model of library.py: Library, Shelf and Book objects on a heap, the   *)
(* dictionaries Library._shelves and Shelf._books holding references to    *)
(* them, and one action per public method.                                 *)
(*                                                                         *)
(* Python strings are sequences of one-character strings, so that str()    *)
(* and str.title() are computed and not assumed.  Objects are referred to  *)
(* by their index in the heap sequences `book` and `shelf`: two dictionary *)
(* entries holding the same index hold the same Python object.             *)
(***************************************************************************)
EXTENDS Integers, Sequences, FiniteSets, TLC

\* ------------------------------------------------------------------ bounds
\* Cap on Book._maxcopies (add_copy has no upper bound in the code).
MaxCopies == 2
\* Length of *args in add_books / add_shelves.
MaxArgs == 2
\* The Book objects that can be constructed, in order of construction.
BookIds == {1, 2}
\* The Shelf objects that can be constructed, in order of construction.
ShelfIds == {1, 2}
\* The Library objects, all constructed before the first step.
Libraries == {1, 2}

\* ----------------------------------------------------------------- strings
DigitChar == <<"0", "1", "2", "3", "4", "5", "6", "7", "8", "9">>

RECURSIVE IntStr(_)
IntStr(n) ==
    IF n < 10 THEN <<DigitChar[n + 1]>>
    ELSE IntStr(n \div 10) \o <<DigitChar[(n % 10) + 1]>>

\* Argument values: a string, an integer, or a reference to an object.
StrVal(s) == [kind |-> "str", s |-> s]
IntVal(n) == [kind |-> "int", n |-> n]
BookRef(b) == [kind |-> "Book", ref |-> b]
ShelfRef(s) == [kind |-> "Shelf", ref |-> s]

\* str(x) of a string or an integer.
str(x) == IF x.kind = "int" THEN IntStr(x.n) ELSE x.s

IsLower(c) == c \in {"a", "b"}
IsUpper(c) == c \in {"A", "B"}
ToUpper(c) == CASE c = "a" -> "A" [] c = "b" -> "B" [] OTHER -> c
ToLower(c) == CASE c = "A" -> "a" [] c = "B" -> "b" [] OTHER -> c
IsCased(c) == IsLower(c) \/ IsUpper(c)

\* str.title(): a cased character is upper-cased when the character before
\* it is uncased (or there is none), lower-cased otherwise.
str_title(s) ==
    [i \in 1..Len(s) |->
        IF IsCased(s[i])
        THEN IF i > 1 /\ IsCased(s[i - 1]) THEN ToLower(s[i]) ELSE ToUpper(s[i])
        ELSE s[i]]

\* ------------------------------------------------------------------ inputs
\* Titles given to Book(title, ...).
BookTitles == { <<"A", "b">>, <<"a", "b">> }
\* Non-Book values given to Shelf.add_books.
BookLabels == { StrVal(<<"a", "b">>), StrVal(<<"A", "B">>) }
\* Non-Book values given to Shelf.add_books where only labels are added:
\* case variants, two words, an integer.
TitleLabels == BookLabels \cup { StrVal(<<"a", " ", "b">>), StrVal(<<"A", " ", "b">>),
                                IntVal(7) }
\* Names given to Shelf(name).
ShelfNames == { <<"F">>, <<"7">> }
\* Non-Shelf values given to Library.add_shelves.
ShelfLabels == { StrVal(<<"F">>), IntVal(7) }
\* Keys given to Shelf.get_book / Shelf.remove_book.
LookupTitles == BookTitles \cup { str_title(str(l)) : l \in BookLabels }
\* Keys given to Shelf.get_book where only labels are added: the labels as
\* written and as title-cased.
LabelLookups == { str(l) : l \in TitleLabels } \cup { str_title(str(l)) : l \in TitleLabels }

\* ------------------------------------------------------------------- state
VARIABLES
    book,       \* heap of Book objects: <<[title, _copies, _maxcopies]>>
    shelf,      \* heap of Shelf objects: <<[name, _books]>>, _books: title -> Book index
    library,    \* Library objects: library[l]._shelves: name -> Shelf index
    op,         \* the call made by the last step
    out,        \* what the last call printed or raised, in order
    ret,        \* what the last call returned: an object's index, 0 for None
    trip        \* a check_out and the check_in right after it, with the counts before

vars == <<book, shelf, library, op, out, ret, trip>>

EmptyDict == [k \in {} |-> 0]
NoCall == [name |-> "none", self |-> 0, args |-> <<>>]
NoTrip == [stage |-> "none", book |-> 0, copies |-> 0, maxcopies |-> 0]

\* A call: the method, the object it is called on (for a constructor, the
\* object made), and the arguments of Book(), add_books, add_shelves,
\* get_book and get_shelf.
Call(name, self, args) == [name |-> name, self |-> self, args |-> args]

Books == 1..Len(book)
Shelves == 1..Len(shelf)

\* d[k] = v added to (or replaced in) dictionary d.
DictSet(d, k, v) == [x \in DOMAIN d \cup {k} |-> IF x = k THEN v ELSE d[x]]
\* del d[k]
DictDel(d, k) == [x \in DOMAIN d \ {k} |-> d[x]]

\* Library.__init__ for each library; no Shelf, no Book yet.
Init ==
    /\ book = <<>>
    /\ shelf = <<>>
    /\ library = [l \in Libraries |-> [_shelves |-> EmptyDict]]
    /\ op = NoCall
    /\ out = <<>>
    /\ ret = 0
    /\ trip = NoTrip

\* -------------------------------------------------------------------- Book
\* Book.__init__ refusing an empty stock: copies = 0 becomes one copy.
BookInit_at_least_one(t, copies) ==
    [title |-> t, _copies |-> IF copies = 0 THEN 1 ELSE copies,
     _maxcopies |-> IF copies = 0 THEN 1 ELSE copies]

\* Book.__init__
BookInit(t, copies) == [title |-> t, _copies |-> copies, _maxcopies |-> copies]

NewBook(t, copies) ==
    /\ Len(book) + 1 \in BookIds
    /\ book' = Append(book, BookInit(t, copies))
    /\ op' = Call("Book", Len(book) + 1, <<StrVal(t), IntVal(copies)>>)
    /\ out' = <<>>
    /\ ret' = 0
    /\ trip' = NoTrip
    /\ UNCHANGED <<shelf, library>>

\* Book.add_copy on a Book record.
add_copy_rec(r) ==
    [r EXCEPT !._copies = r._copies + 1, !._maxcopies = r._maxcopies + 1]

add_copy(b) ==
    /\ book[b]._maxcopies < MaxCopies
    /\ book' = [book EXCEPT ![b] = add_copy_rec(book[b])]
    /\ op' = Call("add_copy", b, <<>>)
    /\ out' = <<>>
    /\ ret' = 0
    /\ trip' = NoTrip
    /\ UNCHANGED <<shelf, library>>

\* check_out without the else branch: the decrement is not guarded.
check_out_unguarded(r) ==
    [rec |-> [r EXCEPT !._copies = r._copies - 1], out |-> <<"report_copies">>]

\* check_out that also gives up the copy for good.
check_out_drops_total(r) ==
    IF r._copies # 0
    THEN [rec |-> [r EXCEPT !._copies = r._copies - 1,
                            !._maxcopies = r._maxcopies - 1],
          out |-> <<"report_copies">>]
    ELSE [rec |-> r, out |-> <<"OutOfStock">>]

\* Book.check_out on a Book record: the record after, and what is printed.
check_out_rec(r) ==
    IF r._copies # 0
    THEN [rec |-> [r EXCEPT !._copies = r._copies - 1], out |-> <<"report_copies">>]
    ELSE [rec |-> r, out |-> <<"OutOfStock">>]

check_out(b) ==
    LET res == check_out_rec(book[b]) IN
    /\ book' = [book EXCEPT ![b] = res.rec]
    /\ op' = Call("check_out", b, <<>>)
    /\ out' = res.out
    /\ ret' = 0
    /\ trip' = IF book[b]._copies > 0
               THEN [stage |-> "out", book |-> b, copies |-> book[b]._copies,
                     maxcopies |-> book[b]._maxcopies]
               ELSE NoTrip
    /\ UNCHANGED <<shelf, library>>

\* check_in comparing with <= : a copy is taken back when all are present.
check_in_off_by_one(r) ==
    IF r._copies <= r._maxcopies
    THEN [rec |-> [r EXCEPT !._copies = r._copies + 1], out |-> <<"report_copies">>]
    ELSE [rec |-> r, out |-> <<"AllCopiesPresent">>]

\* check_in that returns every copy at once.
check_in_all(r) ==
    IF r._copies < r._maxcopies
    THEN [rec |-> [r EXCEPT !._copies = r._maxcopies], out |-> <<"report_copies">>]
    ELSE [rec |-> r, out |-> <<"AllCopiesPresent">>]

\* check_in that reports and forgets the increment.
check_in_forgets(r) ==
    IF r._copies < r._maxcopies
    THEN [rec |-> r, out |-> <<"report_copies">>]
    ELSE [rec |-> r, out |-> <<"AllCopiesPresent">>]

\* Book.check_in on a Book record.
check_in_rec(r) ==
    IF r._copies < r._maxcopies
    THEN [rec |-> [r EXCEPT !._copies = r._copies + 1], out |-> <<"report_copies">>]
    ELSE [rec |-> r, out |-> <<"AllCopiesPresent">>]

check_in(b) ==
    LET res == check_in_rec(book[b]) IN
    /\ book' = [book EXCEPT ![b] = res.rec]
    /\ op' = Call("check_in", b, <<>>)
    /\ out' = res.out
    /\ ret' = 0
    /\ trip' = IF trip.stage = "out" /\ trip.book = b
               THEN [trip EXCEPT !.stage = "in"]
               ELSE NoTrip
    /\ UNCHANGED <<shelf, library>>

\* ------------------------------------------------------------------- Shelf
\* Shelf.__init__
ShelfInit(n) == [name |-> n, _books |-> EmptyDict]

\* ids: the Shelf objects the scenario allows.
NewShelf(n, ids) ==
    /\ Len(shelf) + 1 \in ids
    /\ shelf' = Append(shelf, ShelfInit(n))
    /\ op' = Call("Shelf", Len(shelf) + 1, <<>>)
    /\ out' = <<>>
    /\ ret' = 0
    /\ trip' = NoTrip
    /\ UNCHANGED <<book, library>>

\* Shelf.get_book: the Book index returned (0 for None) and what is printed.
get_book_res(s, t) ==
    IF t \in DOMAIN shelf[s]._books
    THEN [ret |-> shelf[s]._books[t], out |-> <<>>]
    ELSE [ret |-> 0, out |-> <<"NotFound">>]

get_book(s, t) ==
    /\ op' = Call("get_book", s, <<StrVal(t)>>)
    /\ out' = get_book_res(s, t).out
    /\ ret' = get_book_res(s, t).ret
    /\ trip' = NoTrip
    /\ UNCHANGED <<book, shelf, library>>

\* book_key without .title(): the label is filed as written.
book_key_as_written(h, x) ==
    IF x.kind = "Book" THEN h[x.ref].title ELSE str(x)

\* The key add_books files an argument under.
book_key(h, x) ==
    IF x.kind = "Book" THEN h[x.ref].title ELSE str_title(str(x))

\* add_books without the duplicate test: the argument replaces the entry.
add_books_overwrite(st, x) ==
    LET key == book_key(st.book, x) IN
    IF x.kind = "Book"
    THEN [st EXCEPT !.books = DictSet(st.books, key, x.ref)]
    ELSE [book |-> Append(st.book, BookInit(key, 1)),
          books |-> DictSet(st.books, key, Len(st.book) + 1)]

\* add_books titling the key only: the new Book keeps the label as written.
add_books_untitled(st, x) ==
    LET key == book_key(st.book, x) IN
    IF key \in DOMAIN st.books
    THEN [st EXCEPT !.book[st.books[key]] = add_copy_rec(st.book[st.books[key]])]
    ELSE IF x.kind = "Book"
         THEN [st EXCEPT !.books = DictSet(st.books, key, x.ref)]
         ELSE [book |-> Append(st.book, BookInit(str(x), 1)),
               books |-> DictSet(st.books, key, Len(st.book) + 1)]

\* One pass of the loop of add_books over argument x, on the pair
\* st = [book |-> heap, books |-> the shelf's _books].
add_books_step(st, x) ==
    LET key == book_key(st.book, x) IN
    IF key \in DOMAIN st.books
    THEN [st EXCEPT !.book[st.books[key]] = add_copy_rec(st.book[st.books[key]])]
    ELSE IF x.kind = "Book"
         THEN [st EXCEPT !.books = DictSet(st.books, key, x.ref)]
         ELSE [book |-> Append(st.book, BookInit(key, 1)),
               books |-> DictSet(st.books, key, Len(st.book) + 1)]

RECURSIVE add_books_loop(_, _)
add_books_loop(st, args) ==
    IF args = <<>> THEN st
    ELSE add_books_loop(add_books_step(st, Head(args)), Tail(args))

BookArgs == { BookRef(b) : b \in Books } \cup BookLabels

ArgLists(items) == UNION { [1..n -> items] : n \in 1..MaxArgs }

add_books(s, args) ==
    \E res \in {add_books_loop([book |-> book, books |-> shelf[s]._books], args)} :
    /\ 1..Len(res.book) \subseteq BookIds
    /\ \A b \in 1..Len(res.book) : res.book[b]._maxcopies <= MaxCopies
    /\ book' = res.book
    /\ shelf' = [shelf EXCEPT ![s]._books = res.books]
    /\ op' = Call("add_books", s, args)
    /\ out' = <<>>
    /\ ret' = 0
    /\ trip' = NoTrip
    /\ UNCHANGED library

\* `key in d` for a dictionary whose keys are strings: a string is looked up
\* by value; a Book object (no __eq__, no __hash__ of its own: identity)
\* equals no string.
KeyIn(d, key) == key.kind = "str" /\ key.s \in DOMAIN d

\* remove_book that empties the shelf when the title is found.
remove_book_clears(d, key) ==
    IF KeyIn(d, key)
    THEN [books |-> [k \in {} |-> 0], out |-> <<>>]
    ELSE [books |-> d, out |-> <<"NotFound">>]

\* Shelf.remove_book with the value the caller passes as title.
remove_book_res(d, key) ==
    IF KeyIn(d, key)
    THEN [books |-> DictDel(d, key.s), out |-> <<>>]
    ELSE [books |-> d, out |-> <<"NotFound">>]

remove_book(s, t) ==
    LET res == remove_book_res(shelf[s]._books, StrVal(t)) IN
    /\ shelf' = [shelf EXCEPT ![s]._books = res.books]
    /\ op' = Call("remove_book", s, <<>>)
    /\ out' = res.out
    /\ ret' = 0
    /\ trip' = NoTrip
    /\ UNCHANGED <<book, library>>

\* Book.enshelf calls shelf.add_book(self); Shelf has no attribute add_book
\* (its method is add_books), so the call raises AttributeError before
\* anything is changed.
enshelf(b, s) ==
    /\ op' = Call("enshelf", b, <<>>)
    /\ out' = <<"AttributeError">>
    /\ ret' = 0
    /\ trip' = NoTrip
    /\ UNCHANGED <<book, shelf, library>>

\* Book.unshelf calls shelf.remove_book(self): the key looked up is the Book
\* object, not its title.  A Book defines neither __eq__ nor __hash__, so it
\* equals no string key of _books.
unshelf_key(b) == BookRef(b)

unshelf(b, s) ==
    LET res == remove_book_res(shelf[s]._books, unshelf_key(b)) IN
    /\ shelf' = [shelf EXCEPT ![s]._books = res.books]
    /\ op' = Call("unshelf", b, <<>>)
    /\ out' = res.out
    /\ ret' = 0
    /\ trip' = NoTrip
    /\ UNCHANGED <<book, library>>

\* ----------------------------------------------------------------- Library
\* add_shelves that prints the notice and replaces the shelf all the same.
add_shelves_replaces(st, x) ==
    LET shelf_key == IF x.kind = "Shelf" THEN st.shelf[x.ref].name ELSE str(x)
        noted == IF shelf_key \in DOMAIN st.shelves
                 THEN [st EXCEPT !.out = Append(st.out, "DuplicateShelf")]
                 ELSE st
    IN
    IF x.kind = "Shelf"
    THEN [noted EXCEPT !.shelves = DictSet(st.shelves, shelf_key, x.ref)]
    ELSE [noted EXCEPT !.shelf = Append(st.shelf, ShelfInit(shelf_key)),
                       !.shelves = DictSet(st.shelves, shelf_key, Len(st.shelf) + 1)]

\* One pass of the loop of add_shelves over argument x, on
\* st = [shelf |-> heap, shelves |-> the library's _shelves, out |-> printed].
add_shelves_step(st, x) ==
    LET shelf_key == IF x.kind = "Shelf" THEN st.shelf[x.ref].name ELSE str(x) IN
    IF shelf_key \notin DOMAIN st.shelves
    THEN IF x.kind = "Shelf"
         THEN [st EXCEPT !.shelves = DictSet(st.shelves, shelf_key, x.ref)]
         ELSE [st EXCEPT !.shelf = Append(st.shelf, ShelfInit(shelf_key)),
                         !.shelves = DictSet(st.shelves, shelf_key, Len(st.shelf) + 1)]
    ELSE [st EXCEPT !.out = Append(st.out, "DuplicateShelf")]

RECURSIVE add_shelves_loop(_, _)
add_shelves_loop(st, args) ==
    IF args = <<>> THEN st
    ELSE add_shelves_loop(add_shelves_step(st, Head(args)), Tail(args))

ShelfArgs == { ShelfRef(s) : s \in Shelves } \cup ShelfLabels

add_shelves(l, args) ==
    \E res \in {add_shelves_loop(
                   [shelf |-> shelf, shelves |-> library[l]._shelves, out |-> <<>>],
                   args)} :
    /\ 1..Len(res.shelf) \subseteq ShelfIds
    /\ shelf' = res.shelf
    /\ library' = [library EXCEPT ![l]._shelves = res.shelves]
    /\ op' = Call("add_shelves", l, args)
    /\ out' = res.out
    /\ ret' = 0
    /\ trip' = NoTrip
    /\ UNCHANGED book

\* Library.get_shelf
get_shelf_res(l, n) ==
    IF n \in DOMAIN library[l]._shelves
    THEN [ret |-> library[l]._shelves[n], out |-> <<>>]
    ELSE [ret |-> 0, out |-> <<"NotFound">>]

get_shelf(l, n) ==
    /\ op' = Call("get_shelf", l, <<StrVal(n)>>)
    /\ out' = get_shelf_res(l, n).out
    /\ ret' = get_shelf_res(l, n).ret
    /\ trip' = NoTrip
    /\ UNCHANGED <<book, shelf, library>>

\* ----------------------------------------------------------- specification
\* Calls on Book objects.
NextBook ==
    \/ \E t \in BookTitles, c \in 0..MaxCopies : NewBook(t, c)
    \/ \E b \in Books : add_copy(b)
    \/ \E b \in Books : check_out(b)
    \/ \E b \in Books : check_in(b)
    \/ \E b \in Books, s \in Shelves : enshelf(b, s)
    \/ \E b \in Books, s \in Shelves : unshelf(b, s)

\* Calls on Shelf objects already constructed.
NextOnShelf ==
    \/ \E s \in Shelves, t \in LookupTitles : get_book(s, t)
    \/ \E s \in Shelves, args \in ArgLists(BookArgs) : add_books(s, args)
    \/ \E s \in Shelves, t \in LookupTitles : remove_book(s, t)

\* Books and one shelf.
Next ==
    \/ NextBook
    \/ \E n \in {<<"F">>} : NewShelf(n, {1})
    \/ NextOnShelf

\* One library and its shelves; books only as made by add_books from labels.
NextLibrary ==
    \/ \E n \in ShelfNames : NewShelf(n, ShelfIds)
    \/ \E l \in {1}, args \in ArgLists(ShelfArgs) : add_shelves(l, args)
    \/ \E l \in {1}, n \in ShelfNames : get_shelf(l, n)
    \/ \E s \in Shelves, x \in BookLabels : add_books(s, <<x>>)

\* One shelf and the books add_books makes from labels.
NextLabels ==
    \/ \E n \in {<<"F">>} : NewShelf(n, {1})
    \/ \E s \in Shelves, args \in ArgLists(TitleLabels) : add_books(s, args)
    \/ \E s \in Shelves, t \in LabelLookups : get_book(s, t)
    \/ \E s \in Shelves, t \in LabelLookups : remove_book(s, t)

\* One library, its shelves and their books: the calls that write a key,
\* one argument to a call.
NextKeys ==
    \/ \E t \in BookTitles : NewBook(t, 1)
    \/ \E n \in ShelfNames : NewShelf(n, ShelfIds)
    \/ \E s \in Shelves, x \in BookArgs : add_books(s, <<x>>)
    \/ \E s \in Shelves, t \in LookupTitles : remove_book(s, t)
    \/ \E l \in {1}, x \in ShelfArgs : add_shelves(l, <<x>>)

\* Two libraries, two shelves and the books, one argument to a call.
NextShared ==
    \/ \E t \in {<<"A", "b">>} : NewBook(t, 1)
    \/ \E b \in Books : check_out(b)
    \/ \E b \in Books : check_in(b)
    \/ \E n \in ShelfNames : NewShelf(n, ShelfIds)
    \/ \E s \in Shelves, x \in BookArgs : add_books(s, <<x>>)
    \/ \E l \in Libraries, x \in ShelfArgs : add_shelves(l, <<x>>)

Spec == Init /\ [][Next]_vars
SpecLibrary == Init /\ [][NextLibrary]_vars
SpecShared == Init /\ [][NextShared]_vars
SpecLabels == Init /\ [][NextLabels]_vars
SpecKeys == Init /\ [][NextKeys]_vars


\* ------------------------------------------------------------------ claims
Copies(b) == book[b]._copies
Total(b) == book[b]._maxcopies

\* C1: every Book constructed with copies >= 0 (so also every Book made
\* with copies >= 1) has 0 <= available (_copies) <= total (_maxcopies)
\* in every state reached by check_out, check_in, add_copy, add_books
\* (duplicate titles included) and remove_book.
C1_CopiesWithinBounds ==
    \A b \in Books : 0 <= Copies(b) /\ Copies(b) <= Total(b)

\* A book with copies checked out sits on the shelf and a duplicate-title
\* add_books has just raised its counts.
C1_Witness ==
    /\ op.name = "add_books"
    /\ \E s \in Shelves : \E k \in DOMAIN shelf[s]._books :
          LET b == shelf[s]._books[k] IN
          /\ Copies(b) < Total(b)
          /\ Total(b) = MaxCopies

\* C2: a check_out step on book b with _copies > 0 lowers _copies by exactly
\* 1 and keeps _maxcopies; with _copies = 0 it prints the out-of-stock
\* notice and keeps both counters.
C2_CheckOut ==
    [][\A b \in Books :
          (op'.name = "check_out" /\ op'.self = b) =>
             IF Copies(b) > 0
             THEN /\ book'[b]._copies = Copies(b) - 1
                  /\ book'[b]._maxcopies = Total(b)
                  /\ "OutOfStock" \notin {out'[i] : i \in DOMAIN out'}
             ELSE /\ out' = <<"OutOfStock">>
                  /\ book'[b]._copies = Copies(b)
                  /\ book'[b]._maxcopies = Total(b)]_vars

\* A check_out has just been refused on a book that has copies, all out.
C2_Witness ==
    /\ op.name = "check_out"
    /\ out = <<"OutOfStock">>
    /\ Copies(op.self) = 0
    /\ Total(op.self) > 0

\* C3: a check_in step on book b with _copies < _maxcopies raises _copies by
\* exactly 1 and keeps _maxcopies; with _copies = _maxcopies it prints the
\* all-copies-present notice and keeps both counters.
C3_CheckIn ==
    [][\A b \in Books :
          (op'.name = "check_in" /\ op'.self = b) =>
             IF Copies(b) < Total(b)
             THEN /\ book'[b]._copies = Copies(b) + 1
                  /\ book'[b]._maxcopies = Total(b)
                  /\ "AllCopiesPresent" \notin {out'[i] : i \in DOMAIN out'}
             ELSE /\ out' = <<"AllCopiesPresent">>
                  /\ book'[b]._copies = Copies(b)
                  /\ book'[b]._maxcopies = Total(b)]_vars

\* A check_in has just been refused on a book with all its copies present.
C3_Witness ==
    /\ op.name = "check_in"
    /\ out = <<"AllCopiesPresent">>
    /\ Copies(op.self) = Total(op.self)
    /\ Total(op.self) > 0

\* The title an argument of add_books stands for: a Book's own title, or
\* the title-cased string of a label.
ItemTitle(x) == IF x.kind = "Book" THEN book[x.ref].title ELSE str_title(str(x))
\* The arguments of one call that stand for title k.
Filed(args, k) == { i \in DOMAIN args : ItemTitle(args[i]) = k }
Range(f) == { f[k] : k \in DOMAIN f }
Min(S) == CHOOSE i \in S : \A j \in S : i <= j

\* C4: in an add_books call, every argument (Book or label) whose title is
\* already a key of the shelf, or became one earlier in the same call, adds
\* exactly 1 to _copies and to _maxcopies of the Book filed there; that Book
\* stays the entry whatever the argument is; and the shelf gains an entry
\* only for a title it did not have.
C4_DuplicateAdd ==
    [][\A s \in Shelves :
          (op'.name = "add_books" /\ op'.self = s) =>
             LET args == op'.args
                 old == shelf[s]._books
                 new == shelf'[s]._books
                 keys == { ItemTitle(args[i]) : i \in DOMAIN args }
             IN
             /\ DOMAIN new = DOMAIN old \cup keys
             /\ \A k \in DOMAIN old :
                   LET b == old[k]  n == Cardinality(Filed(args, k)) IN
                   /\ new[k] = b
                   /\ book'[b]._copies = Copies(b) + n
                   /\ book'[b]._maxcopies = Total(b) + n
                   /\ book'[b].title = book[b].title
             /\ \A k \in keys \ DOMAIN old :
                   LET x == args[Min(Filed(args, k))]
                       n == Cardinality(Filed(args, k)) - 1
                   IN
                   IF x.kind = "Book"
                   THEN /\ new[k] = x.ref
                        /\ book'[x.ref]._copies = Copies(x.ref) + n
                        /\ book'[x.ref]._maxcopies = Total(x.ref) + n
                   ELSE /\ new[k] \notin Books
                        /\ book'[new[k]]._copies = 1 + n
                        /\ book'[new[k]]._maxcopies = 1 + n]_vars

\* An add_books has just met a title the shelf already had: the shelf holds
\* one entry, a Book with a copy out and its counts raised, while another
\* Book object of the same title exists and is not the entry.
C4_Witness ==
    /\ op.name = "add_books"
    /\ \E s \in Shelves : \E k \in DOMAIN shelf[s]._books :
          LET b == shelf[s]._books[k] IN
          /\ DOMAIN shelf[s]._books = {k}
          /\ Total(b) = 2 /\ Copies(b) = 1
          /\ \E b2 \in Books : b2 # b /\ book[b2].title = k /\ Total(b2) = 1

\* The name an argument of add_shelves stands for.
ItemName(x) == IF x.kind = "Shelf" THEN shelf[x.ref].name ELSE str(x)
NamedBy(args, k) == { i \in DOMAIN args : ItemName(args[i]) = k }

\* C5: in an add_shelves call, every argument (Shelf or label) whose name is
\* already a key of the library, or became one earlier in the same call,
\* prints the duplicate-shelf notice and nothing else happens for it: the
\* library gains an entry only for a name it did not have, every shelf it
\* had is the same object with the same name and books, and no Book changes.
C5_DuplicateShelf ==
    [][\A l \in Libraries :
          (op'.name = "add_shelves" /\ op'.self = l) =>
             LET args == op'.args
                 old == library[l]._shelves
                 new == library'[l]._shelves
                 keys == { ItemName(args[i]) : i \in DOMAIN args }
             IN
             /\ DOMAIN new = DOMAIN old \cup keys
             /\ \A k \in DOMAIN old :
                   /\ new[k] = old[k]
                   /\ shelf'[old[k]] = shelf[old[k]]
             /\ \A k \in keys \ DOMAIN old :
                   LET x == args[Min(NamedBy(args, k))] IN
                   IF x.kind = "Shelf" THEN new[k] = x.ref
                   ELSE new[k] \notin Shelves /\ shelf'[new[k]] = ShelfInit(k)
             /\ Len(out') = Len(args) - Cardinality(keys \ DOMAIN old)
             /\ \A i \in DOMAIN out' : out'[i] = "DuplicateShelf"
             /\ book' = book
             /\ \A l2 \in Libraries \ {l} : library'[l2] = library[l2]]_vars

\* An add_shelves of two arguments has just been refused twice: the library
\* holds one shelf, with a book on it, and another Shelf object of the same
\* name exists.
C5_Witness ==
    /\ op.name = "add_shelves"
    /\ out = <<"DuplicateShelf", "DuplicateShelf">>
    /\ \E k \in DOMAIN library[op.self]._shelves :
          LET s == library[op.self]._shelves[k] IN
          /\ DOMAIN library[op.self]._shelves = {k}
          /\ shelf[s]._books # EmptyDict
          /\ \E s2 \in Shelves : s2 # s /\ shelf[s2].name = k

\* C6: when a check_out of a book with _copies > 0 is followed at once by a
\* check_in of the same book, _copies and _maxcopies are what they were
\* before the check_out.
C6_RoundTrip ==
    trip.stage = "in" =>
        /\ Copies(trip.book) = trip.copies
        /\ Total(trip.book) = trip.maxcopies

\* Such a check_out and check_in have just been made, on a book that had
\* another copy out already.
C6_Witness ==
    /\ trip.stage = "in"
    /\ op.name = "check_in"
    /\ trip.copies < trip.maxcopies

\* C7: enshelf(shelf) changes the shelf as add_books(book) does and leaves
\* an entry for the book's title; unshelf(shelf) changes the shelf as
\* remove_book(book.title) does and leaves no entry for the book's title.
C7_Delegation ==
    [][\A b \in Books : \A s \in Shelves :
          /\ enshelf(b, s) =>
                LET res == add_books_loop(
                               [book |-> book, books |-> shelf[s]._books],
                               <<BookRef(b)>>) IN
                /\ shelf'[s]._books = res.books
                /\ book' = res.book
                /\ book[b].title \in DOMAIN shelf'[s]._books
          /\ unshelf(b, s) =>
                /\ shelf'[s]._books =
                      remove_book_res(shelf[s]._books, StrVal(book[b].title)).books
                /\ book[b].title \notin DOMAIN shelf'[s]._books]_vars

\* C8: a remove_book(title) step deletes the entry of title and no other
\* when title is a key of the shelf; otherwise it prints the not-found
\* notice and the shelf is as it was.  No Book object changes either way.
C8_RemoveBook ==
    [][\A s \in Shelves : \A t \in LookupTitles :
          (op'.name = "remove_book" /\ remove_book(s, t)) =>
             LET old == shelf[s]._books
                 new == shelf'[s]._books
             IN
             /\ IF t \in DOMAIN old
                THEN /\ DOMAIN new = DOMAIN old \ {t}
                     /\ \A k \in DOMAIN new : new[k] = old[k]
                     /\ out' = <<>>
                ELSE /\ new = old
                     /\ out' = <<"NotFound">>
             /\ shelf'[s].name = shelf[s].name
             /\ \A s2 \in Shelves \ {s} : shelf'[s2] = shelf[s2]
             /\ book' = book]_vars

\* A remove_book has just deleted one of two entries of a shelf.
C8_Witness ==
    /\ op.name = "remove_book"
    /\ out = <<>>
    /\ Len(book) = 2
    /\ Cardinality(DOMAIN shelf[op.self]._books) = 1

\* C9: in no step does a Book's _maxcopies go down; it goes up by exactly 1
\* in an add_copy of that Book, by at most 1 for each argument of an
\* add_books, and in no other step.
C9_TotalNeverDecreases ==
    [][\A b \in Books :
          LET d == book'[b]._maxcopies - Total(b) IN
          /\ d >= 0
          /\ (op'.name = "add_copy" /\ op'.self = b) => d = 1
          /\ d # 0 =>
                \/ op'.name = "add_copy" /\ op'.self = b
                \/ op'.name = "add_books" /\ d <= Len(op'.args)]_vars

\* A book with a copy out has been taken off its shelf after its total was
\* raised.
C9_Witness ==
    /\ op.name = "remove_book"
    /\ out = <<>>
    /\ \E b \in Books :
          /\ Total(b) = MaxCopies
          /\ Copies(b) < Total(b)
          /\ \A s \in Shelves : b \notin Range(shelf[s]._books)

\* C10: no Book object is an entry of two shelves and no Shelf object is an
\* entry of two libraries.
C10_ExclusiveOwnership ==
    /\ \A s1 \in Shelves : \A s2 \in Shelves \ {s1} :
          Range(shelf[s1]._books) \cap Range(shelf[s2]._books) = {}
    /\ \A l1 \in Libraries : \A l2 \in Libraries \ {l1} :
          Range(library[l1]._shelves) \cap Range(library[l2]._shelves) = {}

\* b differs from a in letter case at most.
CaseVariant(a, b) ==
    /\ Len(a) = Len(b)
    /\ \A i \in 1..Len(a) : ToLower(a[i]) = ToLower(b[i])
\* Every letter that starts a word is upper case, every other letter lower.
InTitleForm(k) ==
    \A i \in 1..Len(k) :
        IsCased(k[i]) => (IsUpper(k[i]) <=> (i = 1 \/ ~IsCased(k[i - 1])))
\* Argument x of add_books stands for title k.
ArgIs(x, k) ==
    IF x.kind = "Book" THEN book[x.ref].title = k
    ELSE CaseVariant(str(x), k) /\ InTitleForm(k)

\* C11: after an add_books call, every label L among its arguments has an
\* entry whose key is str(L) in title form, and the Book there has that key
\* as its title.  When the title was not on the shelf and L is the first
\* argument standing for it, the Book is a new object whose _copies and
\* _maxcopies are 1 plus 1 for every later argument standing for the same
\* title (labels differing in case included); when it was on the shelf, the
\* Book there gains 1 for each.  get_book(t) returns the entry whose key is
\* exactly t, and None with the not-found notice when there is none.
C11_LabelAdd ==
    [][\A s \in Shelves :
          /\ (op'.name = "add_books" /\ op'.self = s) =>
                LET args == op'.args
                    old == shelf[s]._books
                    new == shelf'[s]._books
                IN
                \A i \in DOMAIN args :
                   args[i].kind # "Book" =>
                      \E k \in DOMAIN new :
                         LET same == { j \in DOMAIN args : ArgIs(args[j], k) } IN
                         /\ ArgIs(args[i], k)
                         /\ book'[new[k]].title = k
                         /\ IF k \in DOMAIN old
                            THEN /\ new[k] = old[k]
                                 /\ book'[new[k]]._copies = Copies(old[k]) + Cardinality(same)
                                 /\ book'[new[k]]._maxcopies = Total(old[k]) + Cardinality(same)
                            ELSE args[Min(same)].kind # "Book" =>
                                 /\ new[k] \notin Books
                                 /\ book'[new[k]]._copies = Cardinality(same)
                                 /\ book'[new[k]]._maxcopies = Cardinality(same)
          /\ (op'.name = "get_book" /\ op'.self = s) =>
                LET t == op'.args[1].s IN
                IF t \in DOMAIN shelf[s]._books
                THEN ret' = shelf[s]._books[t] /\ out' = <<>>
                ELSE ret' = 0 /\ out' = <<"NotFound">>]_vars

\* get_book("A B") has just returned the Book that add_books made from a
\* two-word label and that a second such label gave a second copy.
C11_Witness ==
    /\ op.name = "get_book"
    /\ op.args = <<StrVal(<<"A", " ", "B">>)>>
    /\ ret # 0
    /\ book[ret] = [title |-> <<"A", " ", "B">>, _copies |-> 2, _maxcopies |-> 2]

\* C12: Book(title, copies=0) makes a Book with _copies = _maxcopies = 0.
\* On a Book at 0/0, check_out prints the no-more-copies notice and check_in
\* the all-accounted-for notice, and neither changes the Book; add_copy
\* brings it to 1/1.  Nothing else changes such a Book but an add_books
\* call that finds it on the shelf under its title (held before, or filed by
\* an earlier argument of the call), which adds 1 to both counters for every
\* argument that finds it there.
C12_ZeroCopies ==
    [][/\ (op'.name = "Book" /\ op'.args[2].n = 0) =>
              /\ op'.self \notin Books
              /\ book'[op'.self]._copies = 0
              /\ book'[op'.self]._maxcopies = 0
       /\ \A b \in Books :
             (Copies(b) = 0 /\ Total(b) = 0) =>
                /\ (op'.name = "check_out" /\ op'.self = b) =>
                      out' = <<"OutOfStock">> /\ book'[b] = book[b]
                /\ (op'.name = "check_in" /\ op'.self = b) =>
                      out' = <<"AllCopiesPresent">> /\ book'[b] = book[b]
                /\ (op'.name = "add_copy" /\ op'.self = b) =>
                      book'[b]._copies = 1 /\ book'[b]._maxcopies = 1
                /\ book'[b] # book[b] =>
                      /\ book'[b].title = book[b].title
                      /\ \/ op'.name = "add_copy" /\ op'.self = b
                         \/ /\ op'.name = "add_books"
                            /\ LET k == book[b].title
                                   held == shelf[op'.self]._books
                                   n == Cardinality({ j \in DOMAIN op'.args :
                                                ArgIs(op'.args[j], k) })
                                   dup == IF k \in DOMAIN held THEN n ELSE n - 1
                               IN  /\ k \in DOMAIN held => held[k] = b
                                   /\ k \in DOMAIN shelf'[op'.self]._books
                                   /\ shelf'[op'.self]._books[k] = b
                                   /\ dup >= 1
                                   /\ book'[b]._copies = dup
                                   /\ book'[b]._maxcopies = dup]_vars

\* check_in has just been refused on a Book that has no copies at all.
C12_Witness ==
    /\ op.name = "check_in"
    /\ out = <<"AllCopiesPresent">>
    /\ Copies(op.self) = 0
    /\ Total(op.self) = 0

\* C13: in every state reached by constructing Books and Shelves and calling
\* add_books, remove_book and add_shelves, each key of a shelf's _books is
\* the title of the Book it maps to, and each key of a library's _shelves is
\* the name of the Shelf it maps to.
C13_KeyConsistency ==
    /\ \A s \in Shelves : \A k \in DOMAIN shelf[s]._books :
          /\ shelf[s]._books[k] \in Books
          /\ book[shelf[s]._books[k]].title = k
    /\ \A l \in Libraries : \A k \in DOMAIN library[l]._shelves :
          /\ library[l]._shelves[k] \in Shelves
          /\ shelf[library[l]._shelves[k]].name = k

\* A library holds a shelf that holds two Books, one filed under a title as
\* written by its maker and one under a title-cased label, after a removal.
C13_Witness ==
    /\ op.name = "remove_book"
    /\ out = <<>>
    /\ \E k \in DOMAIN library[1]._shelves :
          /\ <<"a", "b">> \in DOMAIN shelf[library[1]._shelves[k]]._books
          /\ <<"A", "b">> \in DOMAIN shelf[library[1]._shelves[k]]._books

====
